---- MODULE Spec2Model ----
(***************************************************************************)
(* Model of StreamlitANDploty3.py: a Streamlit script that loads a crime   *)
(* incident table and a geocode table (both memoized by st.cache_data),    *)
(* left-joins them on full_address, filters by crime type and city, splits *)
(* the filtered rows into mapped / unmapped and renders them.              *)
(*                                                                         *)
(* Text is a sequence of one-character strings; the empty sequence is the  *)
(* empty CSV cell, which pd.read_csv reads as NaN.  A dataframe is a       *)
(* sequence of records, each carrying its index label.                     *)
(* The columns date, time and the derived datetime (line 17) and the       *)
(* victim_* columns are carried through unchanged by every stage and are   *)
(* left out of the rows.                                                   *)
(***************************************************************************)
EXTENDS Integers, Sequences, FiniteSets, TLC

VARIABLES
    dataFile,       \* crime_safety_dataset.csv on disk: [exists, rows]
    geoFile,        \* geocodes.csv on disk: [exists, columns, rows]
    dataMemo,       \* st.cache_data store of load_data: path -> table
    geoMemo,        \* st.cache_data store of load_geocodes: path -> table
    dataReads,      \* times load_data has read and parsed its file
    geoReads,       \* times load_geocodes has read and parsed its file
    passes,         \* number of script runs started in this session
    log,            \* how each finished script run ended, oldest first
    pc,             \* position of the script run
    status,         \* how the latest script run ended
    df,             \* line 44, rebound at line 52
    geo,            \* line 51
    crime_types,    \* line 57
    cities,         \* line 60
    crime_choice,   \* line 58
    city_choice,    \* line 61
    f,              \* lines 64-68
    mapped_df,      \* line 71
    unmapped_df,    \* line 72
    metrics,        \* lines 77-79
    page,           \* elements the run has put on the page, in order
    exception,      \* the uncaught exception that ended the run, if any
    dataframe       \* the table shown by st.dataframe, lines 118-123

vars == <<dataFile, geoFile, dataMemo, geoMemo, dataReads, geoReads, passes,
          log, pc, status, df, geo, crime_types, cities, crime_choice, city_choice,
          f, mapped_df, unmapped_df, metrics, page, exception, dataframe>>

(***************************************************************************)
(* Bounds of the model.                                                    *)
(***************************************************************************)
MaxIncidents == 2
MaxGeocodes == 2
MaxPasses == 3

(***************************************************************************)
(* Program constants.                                                      *)
(***************************************************************************)
DATA_PATH == "crime_safety_dataset.csv"
GEOCODES_PATH == "geocodes.csv"

All == <<"A", "l", "l">>

required == {"full_address", "lat", "lon"}

(***************************************************************************)
(* Text.                                                                   *)
(***************************************************************************)
NaN == <<>>

isna(cell) == cell = NaN

\* Code point of a character, for Python's string ordering.
Ord(c) ==
    CASE c = " " -> 32
      [] c = "," -> 44
      [] c = "1" -> 49
      [] c = "2" -> 50
      [] c = "A" -> 65
      [] c = "T" -> 84
      [] c = "a" -> 97
      [] c = "l" -> 108
      [] c = "n" -> 110
      [] c = "s" -> 115
      [] c = "x" -> 120
      [] c = "y" -> 121

IsSpace(c) == c = " "

\* Series.astype(str): a missing value becomes the text "nan".
AsStr(cell) == IF isna(cell) THEN <<"n", "a", "n">> ELSE cell

RECURSIVE LStrip(_)
LStrip(s) == IF s # <<>> /\ IsSpace(Head(s)) THEN LStrip(Tail(s)) ELSE s

RECURSIVE RStrip(_)
RStrip(s) ==
    IF s # <<>> /\ IsSpace(s[Len(s)]) THEN RStrip(SubSeq(s, 1, Len(s) - 1)) ELSE s

\* str.strip()
Strip(s) == RStrip(LStrip(s))

Sep == <<",", " ">>

\* a + ", " + b + ", " + c
Join3(a, b, c) == a \o Sep \o b \o Sep \o c

\* Python's < on str.
RECURSIVE StrLess(_, _)
StrLess(a, b) ==
    IF a = <<>> THEN b # <<>>
    ELSE IF b = <<>> THEN FALSE
    ELSE IF Head(a) = Head(b) THEN StrLess(Tail(a), Tail(b))
    ELSE Ord(Head(a)) < Ord(Head(b))

\* sorted(...) of a set of distinct str values.
RECURSIVE sorted(_)
sorted(S) ==
    IF S = {} THEN <<>>
    ELSE LET m == CHOOSE x \in S : \A y \in S : ~StrLess(y, x)
         IN  <<m>> \o sorted(S \ {m})

Range(s) == {s[i] : i \in 1..Len(s)}

\* A dataframe built by pandas from scratch gets the index 0, 1, 2, ...
RangeIndex(rows) ==
    [i \in 1..Len(rows) |-> [c \in DOMAIN rows[i] \cup {"index"} |->
        IF c = "index" THEN i - 1 ELSE rows[i][c]]]

(***************************************************************************)
(* load_data, lines 12-26 (the function body, run on a cache miss).        *)
(***************************************************************************)
\* Variant: the city is joined as it stands.
FullAddressUntrimmedCity(row) ==
    Join3(Strip(AsStr(row.location_description)),
          AsStr(row.city),
          Strip(AsStr(row.state)))

\* Lines 20-24: the join key of an incident row.
FullAddress(row) ==
    Join3(Strip(AsStr(row.location_description)),
          Strip(AsStr(row.city)),
          Strip(AsStr(row.state)))

load_data(rows) ==
    RangeIndex([i \in 1..Len(rows) |->
        [location_description |-> rows[i].location_description,
         city |-> rows[i].city,
         state |-> rows[i].state,
         crime_type |-> rows[i].crime_type,
         full_address |-> FullAddress(rows[i])]])

(***************************************************************************)
(* load_geocodes, lines 28-41 (the function body, run on a cache miss).    *)
(* The outcome is [raised, table]: raised is <<>> on a normal return and   *)
(* the exception otherwise.                                                *)
(***************************************************************************)
\* Line 33: the normalized merge key of a geocode row.
NormalizeKey(key) == Strip(AsStr(key))

\* Line 37
MissingColumns(columns) == required \ columns

\* Line 39: sorted(missing); column names are ordered as Python orders them.
SortedColumns(S) ==
    LET Alphabetical == <<"full_address", "lat", "lon">>
        In(c) == c \in S
    IN  SelectSeq(Alphabetical, In)

\* Variant: line 41 selects lat twice.
load_geocodesLatTwice(columns, rows) ==
    IF "full_address" \notin columns
    THEN [raised |-> <<"KeyError", "full_address">>, table |-> <<>>]
    ELSE IF MissingColumns(columns) # {}
    THEN [raised |-> <<"ValueError", GEOCODES_PATH, " is missing columns: ">>
                        \o SortedColumns(MissingColumns(columns)),
          table |-> <<>>]
    ELSE [raised |-> <<>>,
          table |-> [i \in 1..Len(rows) |->
                        [index |-> i - 1,
                         full_address |-> NormalizeKey(rows[i].full_address),
                         lat |-> rows[i].lat,
                         lon |-> rows[i].lat]]]

load_geocodes(columns, rows) ==
    IF "full_address" \notin columns
    THEN \* line 33 reads the column before line 37 looks for it
         [raised |-> <<"KeyError", "full_address">>, table |-> <<>>]
    ELSE IF MissingColumns(columns) # {}
    THEN [raised |-> <<"ValueError", GEOCODES_PATH, " is missing columns: ">>
                        \o SortedColumns(MissingColumns(columns)),
          table |-> <<>>]
    ELSE [raised |-> <<>>,
          table |-> [i \in 1..Len(rows) |->
                        [index |-> i - 1,
                         full_address |-> NormalizeKey(rows[i].full_address),
                         lat |-> rows[i].lat,
                         lon |-> rows[i].lon]]]

(***************************************************************************)
(* df.merge(geo, on="full_address", how="left"), line 52.                  *)
(***************************************************************************)
Enrich(row, lat, lon) ==
    [location_description |-> row.location_description,
     city |-> row.city,
     state |-> row.state,
     crime_type |-> row.crime_type,
     full_address |-> row.full_address,
     lat |-> lat,
     lon |-> lon]

\* Variant: the first right row with the key wins.
MergeRowFirstMatch(row, right) ==
    LET Same(g) == g.full_address = row.full_address
        matches == SelectSeq(right, Same)
    IN  IF matches = <<>>
        THEN <<Enrich(row, NaN, NaN)>>
        ELSE <<Enrich(row, matches[1].lat, matches[1].lon)>>

\* The rows of the result that come from one left row: one per right row
\* with the same key, in the right table's order, or one with missing
\* coordinates when no right row has the key.
MergeRow(row, right) ==
    LET Same(g) == g.full_address = row.full_address
        matches == SelectSeq(right, Same)
    IN  IF matches = <<>>
        THEN <<Enrich(row, NaN, NaN)>>
        ELSE [k \in 1..Len(matches) |-> Enrich(row, matches[k].lat, matches[k].lon)]

RECURSIVE MergeRows(_, _)
MergeRows(left, right) ==
    IF left = <<>> THEN <<>>
    ELSE MergeRow(Head(left), right) \o MergeRows(Tail(left), right)

merge(left, right) == RangeIndex(MergeRows(left, right))

(***************************************************************************)
(* Filters, lines 57-68.                                                   *)
(***************************************************************************)
\* ["All"] + sorted(df[column].dropna().unique().tolist()), lines 57 and 60
Options(table, column) ==
    <<All>> \o sorted({table[i][column] : i \in 1..Len(table)} \ {NaN})

\* Variant: the city filter is applied to the unfiltered table.
ApplyFiltersCityOnDf(table, crime, city) ==
    LET CrimeIs(r) == r.crime_type = crime
        CityIs(r) == r.city = city
        f1 == IF crime # All THEN SelectSeq(table, CrimeIs) ELSE table
    IN  IF city # All THEN SelectSeq(table, CityIs) ELSE f1

\* Lines 64-68
ApplyFilters(table, crime, city) ==
    LET CrimeIs(r) == r.crime_type = crime
        CityIs(r) == r.city = city
        f1 == IF crime # All THEN SelectSeq(table, CrimeIs) ELSE table
    IN  IF city # All THEN SelectSeq(f1, CityIs) ELSE f1

(***************************************************************************)
(* Coverage split, lines 71-72.                                            *)
(***************************************************************************)
\* f.dropna(subset=["lat", "lon"])
Mapped(table) ==
    LET Keep(r) == ~isna(r.lat) /\ ~isna(r.lon)
    IN  SelectSeq(table, Keep)

\* Variant: & in place of |.
UnmappedBothMissing(table) ==
    LET Keep(r) == isna(r.lat) /\ isna(r.lon)
    IN  SelectSeq(table, Keep)

\* f[f["lat"].isna() | f["lon"].isna()]
Unmapped(table) ==
    LET Keep(r) == isna(r.lat) \/ isna(r.lon)
    IN  SelectSeq(table, Keep)

(***************************************************************************)
(* The files the model draws its inputs from.                              *)
(***************************************************************************)
SeqsUpTo(S, n) == UNION {[1..k -> S] : k \in 0..n}

Locations == {<<" ", "a">>}
Cities == {<<"x">>, <<"y", " ">>}
States == {<<"s", " ">>}
CrimeTypes == {<<"T">>, NaN}

IncidentRows ==
    {[location_description |-> l, city |-> c, state |-> s, crime_type |-> t] :
        l \in Locations, c \in Cities, s \in States, t \in CrimeTypes}

NoDataFile == [exists |-> FALSE, rows |-> <<>>]

DataFiles ==
    {NoDataFile} \cup
    {[exists |-> TRUE, rows |-> r] : r \in SeqsUpTo(IncidentRows, MaxIncidents)}

\* The three fields a geocoding script joins into the key of an incident
\* row: trimmed as lines 20-24 trim them, or as they stand in the row.
GeoKeyFields ==
    {<<Strip(r.location_description), Strip(r.city), Strip(r.state)>> :
        r \in IncidentRows} \cup
    {<<r.location_description, r.city, r.state>> : r \in IncidentRows}

GeoKeys == {Join3(t[1], t[2], t[3]) : t \in GeoKeyFields}
LatCells == {<<"1">>}
LonCells == {<<"2">>, NaN}
AllColumns == required \cup {"note"}

GeoRows ==
    {[full_address |-> k, lat |-> la, lon |-> lo, note |-> <<"n">>] :
        k \in GeoKeys, la \in LatCells, lo \in LonCells}

NoGeoFile == [exists |-> FALSE, columns |-> {}, rows |-> <<>>]

GeoFileOf(columns, rows) ==
    [exists |-> TRUE, columns |-> columns,
     rows |-> [i \in 1..Len(rows) |-> [c \in columns |-> rows[i][c]]]]

GeoFiles ==
    {NoGeoFile} \cup
    {GeoFileOf(C \cup {"note"}, r) : C \in SUBSET required,
                                     r \in SeqsUpTo(GeoRows, MaxGeocodes)}

\* The files a session sees come and go between its script runs.
SessionDataFiles ==
    {d \in DataFiles : ~d.exists \/
        (Len(d.rows) = 1 /\ d.rows[1].crime_type # NaN)}

SessionGeoFiles ==
    {g \in GeoFiles : ~g.exists \/
        (/\ Len(g.rows) = 1
         /\ g.columns \in {AllColumns, {"full_address", "lat", "note"}}
         /\ g.rows[1].full_address = Join3(<<" ", "a">>, <<"x">>, <<"s", " ">>))}

(***************************************************************************)
(* What a script run puts on the page.                                     *)
(***************************************************************************)
Title == <<"st.title", "Crime Data Explorer (with Map)">>
MissingGeocodesError ==
    <<"st.error", "Cannot find ", GEOCODES_PATH,
      " in the working directory. Put it next to this app file.">>
FiltersHeader == <<"st.sidebar.header", "Filters">>
CoverageHeader == <<"st.subheader", "Geocode coverage">>
MapHeader == <<"st.subheader", "Map (px.scatter_mapbox)">>
NoMappedRowsInfo ==
    <<"st.info", "No mapped rows to display under current filters (lat/lon missing).">>
MapChart == <<"st.plotly_chart", "Crime Incidents (mapped rows only)">>
TableHeader == <<"st.subheader", "Data table">>
AllRowsCaption == <<"st.write", "All filtered rows (including unmapped):">>
MappedRowsCaption == <<"st.write", "Mapped rows only (same rows shown on the map):">>

NoMemo == [p \in {} |-> <<>>]
Memoize(path, value) == [p \in {path} |-> value]

(***************************************************************************)
(* The script run.  Streamlit runs the whole script, top to bottom, when   *)
(* the page is opened and again on every widget change.                    *)
(***************************************************************************)
\* Lines 6-7, and the names of the previous run are gone.
Rerun ==
    /\ pc = "idle"
    /\ passes < MaxPasses
    /\ passes' = passes + 1
    /\ pc' = "load_data"
    /\ status' = "running"
    /\ page' = <<Title>>
    /\ exception' = <<>>
    /\ df' = <<>> /\ geo' = <<>> /\ f' = <<>>
    /\ crime_types' = <<>> /\ cities' = <<>>
    /\ crime_choice' = All /\ city_choice' = All
    /\ mapped_df' = <<>> /\ unmapped_df' = <<>>
    /\ metrics' = <<>> /\ dataframe' = <<>>
    /\ UNCHANGED <<dataFile, geoFile, dataMemo, geoMemo, dataReads, geoReads,
                   log>>

\* The run ends.
End(how) ==
    /\ status' = how
    /\ log' = Append(log, how)
    /\ pc' = "idle"

\* An uncaught exception ends the run.
Raise(exc) ==
    /\ exception' = exc
    /\ End("exception")

\* Variant: an absent incidents file is taken for an empty table.
LoadDataGuarded ==
    /\ pc = "load_data"
    /\ IF DATA_PATH \in DOMAIN dataMemo
       THEN /\ df' = dataMemo[DATA_PATH]
            /\ UNCHANGED <<dataMemo, dataReads>>
       ELSE IF dataFile.exists
            THEN /\ dataReads' = dataReads + 1
                 /\ df' = load_data(dataFile.rows)
                 /\ dataMemo' = Memoize(DATA_PATH, load_data(dataFile.rows))
            ELSE /\ df' = <<>>
                 /\ UNCHANGED <<dataMemo, dataReads>>
    /\ pc' = "check_geocodes"
    /\ UNCHANGED <<dataFile, geoFile, geoMemo, geoReads, passes, geo,
                   crime_types, cities, crime_choice, city_choice, f,
                   mapped_df, unmapped_df, metrics, page, dataframe,
                   exception, status, log>>

\* Line 44: df = load_data(DATA_PATH), behind st.cache_data (line 12).
LoadData ==
    /\ pc = "load_data"
    /\ IF DATA_PATH \in DOMAIN dataMemo
       THEN /\ df' = dataMemo[DATA_PATH]
            /\ pc' = "check_geocodes"
            /\ UNCHANGED <<dataMemo, dataReads, exception, status, log>>
       ELSE IF dataFile.exists
            THEN /\ dataReads' = dataReads + 1
                 /\ df' = load_data(dataFile.rows)
                 /\ dataMemo' = Memoize(DATA_PATH, load_data(dataFile.rows))
                 /\ pc' = "check_geocodes"
                 /\ UNCHANGED <<exception, status, log>>
            ELSE /\ Raise(<<"FileNotFoundError", DATA_PATH>>)
                 /\ UNCHANGED <<df, dataMemo, dataReads>>
    /\ UNCHANGED <<dataFile, geoFile, geoMemo, geoReads, passes, geo,
                   crime_types, cities, crime_choice, city_choice, f,
                   mapped_df, unmapped_df, metrics, page, dataframe>>

\* Variant: st.error without st.stop.
CheckGeocodesNoStop ==
    /\ pc = "check_geocodes"
    /\ page' = IF ~geoFile.exists THEN Append(page, MissingGeocodesError) ELSE page
    /\ pc' = "load_geocodes"
    /\ UNCHANGED <<dataFile, geoFile, dataMemo, geoMemo, dataReads, geoReads,
                   passes, df, geo, crime_types, cities, crime_choice,
                   city_choice, f, mapped_df, unmapped_df, metrics, exception,
                   dataframe, status, log>>

\* Variant: the check is skipped once the geocode table is memoized.
CheckGeocodesUnlessMemoized ==
    /\ pc = "check_geocodes"
    /\ IF ~geoFile.exists /\ GEOCODES_PATH \notin DOMAIN geoMemo
       THEN /\ page' = Append(page, MissingGeocodesError)
            /\ End("stopped")
       ELSE /\ pc' = "load_geocodes"
            /\ UNCHANGED <<page, status, log>>
    /\ UNCHANGED <<dataFile, geoFile, dataMemo, geoMemo, dataReads, geoReads,
                   passes, df, geo, crime_types, cities, crime_choice,
                   city_choice, f, mapped_df, unmapped_df, metrics, exception,
                   dataframe>>

\* Lines 47-49: the existence check, st.error and st.stop.
CheckGeocodes ==
    /\ pc = "check_geocodes"
    /\ IF ~geoFile.exists
       THEN /\ page' = Append(page, MissingGeocodesError)
            /\ End("stopped")
       ELSE /\ pc' = "load_geocodes"
            /\ UNCHANGED <<page, status, log>>
    /\ UNCHANGED <<dataFile, geoFile, dataMemo, geoMemo, dataReads, geoReads,
                   passes, df, geo, crime_types, cities, crime_choice,
                   city_choice, f, mapped_df, unmapped_df, metrics, exception,
                   dataframe>>

\* Variant: load_geocodes without st.cache_data.
LoadGeocodesUncached ==
    /\ pc = "load_geocodes"
    /\ IF ~geoFile.exists
       THEN /\ Raise(<<"FileNotFoundError", GEOCODES_PATH>>)
            /\ UNCHANGED <<geo, geoMemo, geoReads>>
       ELSE LET out == load_geocodes(geoFile.columns, geoFile.rows)
            IN  /\ geoReads' = geoReads + 1
                /\ IF out.raised # <<>>
                   THEN /\ Raise(out.raised)
                        /\ UNCHANGED <<geo, geoMemo>>
                   ELSE /\ geo' = out.table
                        /\ geoMemo' = Memoize(GEOCODES_PATH, out.table)
                        /\ pc' = "merge"
                        /\ UNCHANGED <<exception, status, log>>
    /\ UNCHANGED <<dataFile, geoFile, dataMemo, dataReads, passes, df,
                   crime_types, cities, crime_choice, city_choice, f,
                   mapped_df, unmapped_df, metrics, page, dataframe>>

\* Line 51: geo = load_geocodes(GEOCODES_PATH), behind st.cache_data (line 28).
LoadGeocodes ==
    /\ pc = "load_geocodes"
    /\ IF GEOCODES_PATH \in DOMAIN geoMemo
       THEN /\ geo' = geoMemo[GEOCODES_PATH]
            /\ pc' = "merge"
            /\ UNCHANGED <<geoMemo, geoReads, exception, status, log>>
       ELSE IF ~geoFile.exists
            THEN /\ Raise(<<"FileNotFoundError", GEOCODES_PATH>>)
                 /\ UNCHANGED <<geo, geoMemo, geoReads>>
            ELSE LET out == load_geocodes(geoFile.columns, geoFile.rows)
                 IN  /\ geoReads' = geoReads + 1
                     /\ IF out.raised # <<>>
                        THEN /\ Raise(out.raised)
                             /\ UNCHANGED <<geo, geoMemo>>
                        ELSE /\ geo' = out.table
                             /\ geoMemo' = Memoize(GEOCODES_PATH, out.table)
                             /\ pc' = "merge"
                             /\ UNCHANGED <<exception, status, log>>
    /\ UNCHANGED <<dataFile, geoFile, dataMemo, dataReads, passes, df,
                   crime_types, cities, crime_choice, city_choice, f,
                   mapped_df, unmapped_df, metrics, page, dataframe>>

\* Line 52
Merge ==
    /\ pc = "merge"
    /\ df' = merge(df, geo)
    /\ pc' = "filters"
    /\ UNCHANGED <<dataFile, geoFile, dataMemo, geoMemo, dataReads, geoReads,
                   passes, log, status, geo, crime_types, cities, crime_choice,
                   city_choice, f, mapped_df, unmapped_df, metrics, page,
                   exception, dataframe>>

\* Lines 55-61: the two select boxes; the user's selection is any option.
Filters ==
    /\ pc = "filters"
    /\ crime_types' = Options(df, "crime_type")
    /\ cities' = Options(df, "city")
    /\ \E i \in 1..Len(Options(df, "crime_type")) :
           crime_choice' = Options(df, "crime_type")[i]
    /\ \E i \in 1..Len(Options(df, "city")) :
           city_choice' = Options(df, "city")[i]
    /\ page' = Append(page, FiltersHeader)
    /\ pc' = "apply_filters"
    /\ UNCHANGED <<dataFile, geoFile, dataMemo, geoMemo, dataReads, geoReads,
                   passes, log, status, df, geo, f, mapped_df, unmapped_df, metrics,
                   exception, dataframe>>

\* Lines 64-68
Apply ==
    /\ pc = "apply_filters"
    /\ f' = ApplyFilters(df, crime_choice, city_choice)
    /\ pc' = "coverage"
    /\ UNCHANGED <<dataFile, geoFile, dataMemo, geoMemo, dataReads, geoReads,
                   passes, log, status, df, geo, crime_types, cities, crime_choice,
                   city_choice, mapped_df, unmapped_df, metrics, page,
                   exception, dataframe>>

\* Lines 71-79
Coverage ==
    /\ pc = "coverage"
    /\ mapped_df' = Mapped(f)
    /\ unmapped_df' = Unmapped(f)
    /\ metrics' = <<Len(f), Len(Mapped(f)), Len(Unmapped(f))>>
    /\ page' = Append(page, CoverageHeader)
    /\ pc' = "map"
    /\ UNCHANGED <<dataFile, geoFile, dataMemo, geoMemo, dataReads, geoReads,
                   passes, log, status, df, geo, crime_types, cities, crime_choice,
                   city_choice, f, exception, dataframe>>

\* Lines 82-111
Map ==
    /\ pc = "map"
    /\ page' = page \o <<MapHeader,
                         IF mapped_df = <<>> THEN NoMappedRowsInfo ELSE MapChart>>
    /\ pc' = "tables"
    /\ UNCHANGED <<dataFile, geoFile, dataMemo, geoMemo, dataReads, geoReads,
                   passes, log, status, df, geo, crime_types, cities, crime_choice,
                   city_choice, f, mapped_df, unmapped_df, metrics, exception,
                   dataframe>>

\* Lines 114-123: the check box is either way; the script ends here.
Tables ==
    /\ pc = "tables"
    /\ \E show_unmapped \in BOOLEAN :
          IF show_unmapped
          THEN /\ page' = page \o <<TableHeader, AllRowsCaption>>
               /\ dataframe' = f
          ELSE /\ page' = page \o <<TableHeader, MappedRowsCaption>>
               /\ dataframe' = mapped_df
    /\ End("completed")
    /\ UNCHANGED <<dataFile, geoFile, dataMemo, geoMemo, dataReads, geoReads,
                   passes, df, geo, crime_types, cities, crime_choice,
                   city_choice, f, mapped_df, unmapped_df, metrics, exception>>

(***************************************************************************)
(* The files change between script runs.                                   *)
(***************************************************************************)
script == <<pc, status, df, geo, crime_types, cities, crime_choice,
            city_choice, f, mapped_df, unmapped_df, metrics, page, exception,
            dataframe, passes, log, dataMemo, geoMemo, dataReads, geoReads>>

WriteData ==
    /\ pc = "idle"
    /\ \E d \in SessionDataFiles : d.exists /\ d # dataFile /\ dataFile' = d
    /\ UNCHANGED <<geoFile, script>>

RemoveData ==
    /\ pc = "idle"
    /\ dataFile.exists
    /\ dataFile' = NoDataFile
    /\ UNCHANGED <<geoFile, script>>

WriteGeocodes ==
    /\ pc = "idle"
    /\ \E g \in SessionGeoFiles : g.exists /\ g # geoFile /\ geoFile' = g
    /\ UNCHANGED <<dataFile, script>>

RemoveGeocodes ==
    /\ pc = "idle"
    /\ geoFile.exists
    /\ geoFile' = NoGeoFile
    /\ UNCHANGED <<dataFile, script>>

(***************************************************************************)
(* Spec: a session, from the page being opened, with the files changing   *)
(* between runs.  SpecRun: the first run of a session, over every pair of  *)
(* input files.                                                            *)
(***************************************************************************)
Fresh ==
    /\ dataMemo = NoMemo /\ geoMemo = NoMemo
    /\ dataReads = 0 /\ geoReads = 0
    /\ exception = <<>>
    /\ df = <<>> /\ geo = <<>> /\ f = <<>>
    /\ crime_types = <<>> /\ cities = <<>>
    /\ crime_choice = All /\ city_choice = All
    /\ mapped_df = <<>> /\ unmapped_df = <<>>
    /\ metrics = <<>> /\ dataframe = <<>>

Init ==
    /\ dataFile \in SessionDataFiles
    /\ geoFile \in SessionGeoFiles
    /\ passes = 0
    /\ log = <<>>
    /\ pc = "idle"
    /\ status = "fresh"
    /\ page = <<>>
    /\ Fresh

Next ==
    \/ Rerun
    \/ LoadData
    \/ CheckGeocodes
    \/ LoadGeocodes
    \/ Merge
    \/ Filters
    \/ Apply
    \/ Coverage
    \/ Map
    \/ Tables
    \/ WriteData
    \/ RemoveData
    \/ WriteGeocodes
    \/ RemoveGeocodes

Spec == Init /\ [][Next]_vars

InitRun ==
    /\ dataFile \in DataFiles
    /\ geoFile \in GeoFiles
    /\ passes = 1
    /\ log = <<>>
    /\ pc = "load_data"
    /\ status = "running"
    /\ page = <<Title>>
    /\ Fresh

NextRun ==
    \/ LoadData
    \/ CheckGeocodes
    \/ LoadGeocodes
    \/ Merge
    \/ Filters
    \/ Apply
    \/ Coverage
    \/ Map
    \/ Tables

SpecRun == InitRun /\ [][NextRun]_vars

(***************************************************************************)
(* Vocabulary of the properties.                                           *)
(***************************************************************************)
\* Line 52 has just run: df is the enriched table (no later line assigns df).
Merged == pc = "filters"

\* Lines 64-68 have just run: f is the filter's output.
Filtered == pc = "coverage"

\* Lines 71-79 have just run: f is split and the counters are shown.
Partitioned == pc = "map"

\* The incident table as load_data returned it.
Incidents == dataMemo[DATA_PATH]

\* t is s without its leading and trailing whitespace.
IsTrimOf(t, s) ==
    \E i, j \in 0..Len(s) :
        /\ i + j <= Len(s)
        /\ t = SubSeq(s, i + 1, Len(s) - j)
        /\ \A k \in 1..i : s[k] = " "
        /\ \A k \in (Len(s) - j + 1)..Len(s) : s[k] = " "
        /\ t = <<>> \/ (t[1] # " " /\ t[Len(t)] # " ")

\* The text of a cell, "nan" for a missing one.
TextOf(cell) == IF cell = <<>> THEN <<"n", "a", "n">> ELSE cell

\* key is trim(location_description) + ", " + trim(city) + ", " + trim(state)
IsKeyOf(key, row) ==
    \E a, b \in 0..Len(key) :
        /\ a + 2 <= b /\ b + 2 <= Len(key)
        /\ SubSeq(key, a + 1, a + 2) = <<",", " ">>
        /\ SubSeq(key, b + 1, b + 2) = <<",", " ">>
        /\ IsTrimOf(SubSeq(key, 1, a), TextOf(row.location_description))
        /\ IsTrimOf(SubSeq(key, a + 3, b), TextOf(row.city))
        /\ IsTrimOf(SubSeq(key, b + 3, Len(key)), TextOf(row.state))

\* u and v are equal up to leading and trailing whitespace.
SameTrimmed(u, v) ==
    \E t \in {SubSeq(u, i, j) : i \in 1..(Len(u) + 1), j \in 0..Len(u)} :
        IsTrimOf(t, u) /\ IsTrimOf(t, v)

\* The geocode key is the join of three fields that are the row's three
\* fields up to leading and trailing whitespace of each field.
AgreeUpToWhitespace(row, key) ==
    \E t \in GeoKeyFields :
        /\ key = t[1] \o <<",", " ">> \o t[2] \o <<",", " ">> \o t[3]
        /\ SameTrimmed(t[1], TextOf(row.location_description))
        /\ SameTrimmed(t[2], TextOf(row.city))
        /\ SameTrimmed(t[3], TextOf(row.state))

\* The number of geocode entries with the key of incident row i.
Fanout(i) ==
    Cardinality({j \in 1..Len(geo) : geo[j].full_address = Incidents[i].full_address})

RECURSIVE EnrichedRows(_)
EnrichedRows(n) ==
    IF n = 0 THEN 0
    ELSE EnrichedRows(n - 1) + (IF Fanout(n) = 0 THEN 1 ELSE Fanout(n))

UniqueGeocodeKeys ==
    \A i, j \in 1..Len(geo) : geo[i].full_address = geo[j].full_address => i = j

(***************************************************************************)
(* C1: the enriched table has exactly as many rows as the incident table,  *)
(* whatever the geocode table holds (nothing, no match, several entries    *)
(* with one full_address).                                                 *)
(***************************************************************************)
C1_RowCountPreserved == Merged => Len(df) = Len(Incidents)

\* C1, amended: the enriched table has, for every incident row, one row per
\* geocode entry with its full_address, or one row when there is none; so it
\* never has fewer rows than the incident table, and has exactly as many
\* when no full_address occurs twice in the geocode table.
C1_LeftJoinFansOut ==
    Merged =>
        /\ Len(df) = EnrichedRows(Len(Incidents))
        /\ Len(df) >= Len(Incidents)
        /\ UniqueGeocodeKeys => Len(df) = Len(Incidents)

C1_Witness ==
    /\ Merged
    /\ Len(Incidents) = 2
    /\ Fanout(1) = 2
    /\ Fanout(2) = 0
    /\ Len(df) = 3

(***************************************************************************)
(* C2: when a non-empty set M of the required columns is absent from the   *)
(* geocode file, load_geocodes fails with the error naming the sorted list *)
(* of M; when none is absent it returns the three columns full_address,    *)
(* lat, lon only.                                                          *)
(***************************************************************************)
C2_SchemaError ==
    (geoReads > 0 /\ pc # "load_geocodes") =>
        IF required \ geoFile.columns # {}
        THEN /\ status = "exception"
             /\ exception = <<"ValueError", GEOCODES_PATH, " is missing columns: ">>
                                \o SortedColumns(required \ geoFile.columns)
        ELSE /\ status # "exception"
             /\ \A i \in 1..Len(geo) :
                    DOMAIN geo[i] = {"index", "full_address", "lat", "lon"}

(***************************************************************************)
(* C4: the coverage split is a partition of the filtered rows: each row of *)
(* f is in exactly one of mapped_df (lat and lon present) and unmapped_df  *)
(* (lat or lon missing), and the counters add up.                          *)
(***************************************************************************)
C4_Partition ==
    Partitioned =>
        /\ \A r \in Range(f) : (r \in Range(mapped_df)) # (r \in Range(unmapped_df))
        /\ Range(mapped_df) \cup Range(unmapped_df) = Range(f)
        /\ Range(mapped_df) \cap Range(unmapped_df) = {}
        /\ \A r \in Range(mapped_df) : r.lat # NaN /\ r.lon # NaN
        /\ \A r \in Range(unmapped_df) : r.lat = NaN \/ r.lon = NaN
        /\ Len(mapped_df) + Len(unmapped_df) = Len(f)
        /\ metrics = <<Len(f), Len(mapped_df), Len(unmapped_df)>>
        /\ metrics[2] + metrics[3] = metrics[1]

C4_Witness ==
    /\ Partitioned
    /\ Len(mapped_df) > 0
    /\ \E r \in Range(unmapped_df) : r.lat # NaN /\ r.lon = NaN
    /\ \E r \in Range(unmapped_df) : r.lat = NaN /\ r.lon = NaN

(***************************************************************************)
(* C5: the filter output holds exactly the rows r of the enriched table    *)
(* with (crime selector is "All" or r.crime_type is the selector) and      *)
(* (city selector is "All" or r.city is the selector), in the input's      *)
(* order; ("All", "All") returns the table as it is, and filtering the     *)
(* output again with the same selectors changes nothing.                   *)
(***************************************************************************)
Passes(r) ==
    /\ crime_choice = All \/ r.crime_type = crime_choice
    /\ city_choice = All \/ r.city = city_choice

C5_Filter ==
    Filtered =>
        /\ \A r \in Range(df) : r \in Range(f) <=> Passes(r)
        /\ Range(f) \subseteq Range(df)
        /\ \A i, j \in 1..Len(f) : i < j => f[i].index < f[j].index
        /\ (crime_choice = All /\ city_choice = All) => f = df
        /\ ApplyFilters(f, crime_choice, city_choice) = f

C5_Witness ==
    /\ Filtered
    /\ crime_choice # All
    /\ city_choice # All
    /\ Len(df) = 3
    /\ Len(f) = 2
    /\ f[1].index = 1

(***************************************************************************)
(* C7: every record of the enriched table has lat and lon both present or  *)
(* both absent, also when a geocode row holds only one of them.            *)
(***************************************************************************)
C7_BothOrNeither ==
    Merged => \A r \in Range(df) : (r.lat = NaN) <=> (r.lon = NaN)

\* The entries of the geocode file whose key, trimmed, is the row's key.
FileEntriesFor(r) ==
    {j \in 1..Len(geoFile.rows) :
        IsTrimOf(r.full_address, geoFile.rows[j].full_address)}

\* C7, amended: a record whose full_address no geocode entry has gets lat
\* and lon both absent; any other record carries the lat and lon of one of
\* the entries with its full_address as they stand in the geocode file, so
\* its lat and lon are both present or both absent exactly when they are so
\* in that entry.
C7_CoordinatesAsInFile ==
    Merged =>
        \A r \in Range(df) :
            IF FileEntriesFor(r) = {}
            THEN r.lat = NaN /\ r.lon = NaN
            ELSE \E j \in FileEntriesFor(r) :
                    /\ r.lat = geoFile.rows[j].lat
                    /\ r.lon = geoFile.rows[j].lon

C7_Witness ==
    /\ Merged
    /\ \E r \in Range(df) : r.lat # NaN /\ r.lon = NaN
    /\ \E r \in Range(df) : r.lat = NaN /\ r.lon = NaN
    /\ \E r \in Range(df) : r.lat # NaN /\ r.lon # NaN

(***************************************************************************)
(* C8: the key rule trim(location_description) + ", " + trim(city) + ", "  *)
(* + trim(state) is applied on both sides of the join, so an incident row  *)
(* and a geocode entry that agree on the three fields up to leading and    *)
(* trailing whitespace of each field get equal keys and are matched.       *)
(***************************************************************************)
\* Some enriched record of incident row r carries the coordinates of entry j.
MatchedWith(r, j) ==
    \E e \in Range(df) :
        /\ e.location_description = r.location_description
        /\ e.city = r.city
        /\ e.state = r.state
        /\ e.crime_type = r.crime_type
        /\ e.lat = geoFile.rows[j].lat
        /\ e.lon = geoFile.rows[j].lon

C8_SameRuleBothSides ==
    Merged =>
        \A r \in Range(Incidents) : \A j \in 1..Len(geoFile.rows) :
            AgreeUpToWhitespace(r, geoFile.rows[j].full_address) =>
                /\ geo[j].full_address = r.full_address
                /\ MatchedWith(r, j)

\* C8, amended: every incident row's full_address is the rule's string; the
\* geocode loader trims the leading and trailing whitespace of the whole key
\* only; an incident row and a geocode entry are matched when the entry's
\* key, so trimmed, is the rule's string for the row.
C8_KeyRule ==
    Merged =>
        /\ \A r \in Range(Incidents) : IsKeyOf(r.full_address, r)
        /\ \A j \in 1..Len(geo) :
              IsTrimOf(geo[j].full_address, geoFile.rows[j].full_address)
        /\ \A r \in Range(Incidents) : \A j \in 1..Len(geoFile.rows) :
              IsTrimOf(r.full_address, geoFile.rows[j].full_address) =>
                  /\ geo[j].full_address = r.full_address
                  /\ MatchedWith(r, j)

C8_Witness ==
    /\ Merged
    /\ \E r \in Range(Incidents) : \E j \in 1..Len(geoFile.rows) :
          /\ geoFile.rows[j].full_address # r.full_address
          /\ IsTrimOf(r.full_address, geoFile.rows[j].full_address)
          /\ MatchedWith(r, j)
          /\ geoFile.rows[j].lon # NaN
    /\ \E r \in Range(Incidents) : \E j \in 1..Len(geoFile.rows) :
          /\ AgreeUpToWhitespace(r, geoFile.rows[j].full_address)
          /\ geo[j].full_address # r.full_address

(***************************************************************************)
(* Vocabulary of the session properties.                                   *)
(***************************************************************************)
DataMemoized == DATA_PATH \in DOMAIN dataMemo
GeocodesMemoized == GEOCODES_PATH \in DOMAIN geoMemo

\* Nothing from line 51 on has run in the script run.
NothingPastTheCheck ==
    /\ geo = <<>>
    /\ crime_types = <<>> /\ cities = <<>>
    /\ f = <<>> /\ mapped_df = <<>> /\ unmapped_df = <<>>
    /\ metrics = <<>>
    /\ dataframe = <<>>
    /\ \A r \in Range(df) : "lat" \notin DOMAIN r

\* This step ends a script run.
RunEnds == pc # "idle" /\ pc' = "idle"

(***************************************************************************)
(* C3: a script run in which the geocode file does not exist shows the     *)
(* error message naming the path and halts, reaching neither the geocode   *)
(* load nor any later stage; the halt ends that run only.                  *)
(***************************************************************************)
C3_MissingGeocodesAlwaysShown ==
    [][(RunEnds /\ ~geoFile.exists) =>
          /\ status' = "stopped"
          /\ page' = <<Title, MissingGeocodesError>>
          /\ NothingPastTheCheck']_vars

\* C3, amended: a script run that gets past the incidents load (line 44) and
\* finds the geocode file absent shows the error message naming the path and
\* halts, reaching neither the geocode load nor any later stage; the halt
\* ends that run only, and a later run that finds the file goes on to the
\* geocode load.  (A run whose incidents load fails ends there, with no
\* message.)
C3_HaltsAtTheCheck ==
    /\ [][(pc = "check_geocodes" /\ ~geoFile.exists) =>
             /\ pc' = "idle"
             /\ status' = "stopped"
             /\ page' = <<Title, MissingGeocodesError>>
             /\ MissingGeocodesError[3] = GEOCODES_PATH
             /\ NothingPastTheCheck'
             /\ UNCHANGED <<geoReads, geoMemo, exception>>]_vars
    /\ [][(pc = "check_geocodes" /\ geoFile.exists) => pc' = "load_geocodes"]_vars
    /\ []((pc = "idle" /\ status = "stopped") =>
             (page = <<Title, MissingGeocodesError>> /\ NothingPastTheCheck))

C3_Witness ==
    /\ pc = "idle"
    /\ status = "completed"
    /\ Len(log) = 2
    /\ log[1] = "stopped"
    /\ dataframe # <<>>

(***************************************************************************)
(* C6: in a session each loader reads and parses its file at most once per *)
(* path: after the first successful load every run gets the memoized table *)
(* without file I/O, whatever the file holds by then, while join, filter,  *)
(* partition and render run again in every script run.                     *)
(***************************************************************************)
C6_ReadAtMostOnce == dataReads <= 1 /\ geoReads <= 1

FullPage(p) ==
    /\ Len(p) = 7
    /\ p[1] = Title /\ p[2] = FiltersHeader /\ p[3] = CoverageHeader
    /\ p[4] = MapHeader /\ p[5] \in {NoMappedRowsInfo, MapChart}
    /\ p[6] = TableHeader /\ p[7] \in {AllRowsCaption, MappedRowsCaption}

\* C6, amended: once a loader's load has succeeded its table is memoized for
\* the session: every later run gets the memoized table without reading the
\* file, whatever the file holds by then.  A load that raises is not
\* memoized, and the next run reads and parses the file again.  Join,
\* filter, partition and render run again in every script run that gets to
\* them (a run ended by the missing-geocode halt or by an exception runs
\* none of the later stages).
C6_MemoizedOnceLoaded ==
    /\ [][/\ DataMemoized => (dataReads' = dataReads /\ dataMemo' = dataMemo)
          /\ GeocodesMemoized => (geoReads' = geoReads /\ geoMemo' = geoMemo)
          /\ (pc = "load_data" /\ DataMemoized) =>
                (df' = dataMemo[DATA_PATH] /\ pc' = "check_geocodes")
          /\ (pc = "load_geocodes" /\ GeocodesMemoized) =>
                (geo' = geoMemo[GEOCODES_PATH] /\ pc' = "merge")
          /\ (pc = "load_geocodes" /\ ~GeocodesMemoized /\ status' = "exception") =>
                (~GeocodesMemoized' /\ geoReads' = geoReads + 1)
          /\ (pc = "idle" /\ pc' # "idle") =>
                (df' = <<>> /\ f' = <<>> /\ metrics' = <<>> /\ page' = <<Title>>)]_vars
    /\ []((pc = "idle" /\ status = "completed") =>
             /\ FullPage(page)
             /\ Len(df) >= Len(Incidents)
             /\ \A r \in Range(df) : "lat" \in DOMAIN r
             /\ Range(f) \subseteq Range(df)
             /\ metrics = <<Len(f), Len(mapped_df), Len(unmapped_df)>>
             /\ dataframe \in {f, mapped_df})

C6_Witness ==
    /\ pc = "tables"
    /\ passes >= 2
    /\ dataReads = 1 /\ geoReads = 1
    /\ dataFile.exists /\ load_data(dataFile.rows) # df
    /\ \A r \in Range(df) : r.city = Incidents[1].city
    /\ geoFile.exists /\ geoFile.columns = AllColumns
    /\ geoFile.rows[1].lon # geo[1].lon

(***************************************************************************)
(* C9: the incidents load runs before the geocode existence check and has  *)
(* no guard: when the incidents file cannot be loaded and is not memoized, *)
(* the run ends with the unhandled load failure, and neither the           *)
(* missing-geocode message nor any later stage is reached, whether or not  *)
(* the geocode file exists.                                                *)
(***************************************************************************)
C9_UnguardedIncidentsLoad ==
    /\ [][(pc = "load_data" /\ ~DataMemoized /\ ~dataFile.exists) =>
             /\ pc' = "idle"
             /\ status' = "exception"
             /\ exception' = <<"FileNotFoundError", DATA_PATH>>
             /\ page' = <<Title>>
             /\ df' = <<>>
             /\ NothingPastTheCheck'
             /\ UNCHANGED <<dataReads, dataMemo, geoReads, geoMemo>>]_vars
    /\ [][(pc # "check_geocodes" /\ pc' = "check_geocodes") => pc = "load_data"]_vars
    /\ [][(pc # "load_data" /\ pc' = "load_data") => pc = "idle"]_vars

C9_Witness ==
    /\ pc = "idle"
    /\ status = "exception"
    /\ exception = <<"FileNotFoundError", DATA_PATH>>
    /\ page = <<Title>>
    /\ ~geoFile.exists
    /\ ~dataFile.exists
    /\ log = <<"exception">>

(***************************************************************************)
(* C10: the geocode existence check looks at the file system in every run  *)
(* and is not covered by the memo: with the file removed after a run that  *)
(* memoized it, a run halts with the missing-file message and does not use *)
(* the memoized table; while the file exists, runs use the memoized table  *)
(* whatever the file holds.                                                *)
(***************************************************************************)
C10_CheckNotMemoized ==
    /\ [][(pc = "check_geocodes" /\ GeocodesMemoized /\ ~geoFile.exists) =>
             /\ pc' = "idle"
             /\ status' = "stopped"
             /\ page' = <<Title, MissingGeocodesError>>
             /\ geo' = <<>>
             /\ NothingPastTheCheck']_vars
    /\ [][(pc # "load_geocodes" /\ pc' = "load_geocodes") =>
             (pc = "check_geocodes" /\ geoFile.exists)]_vars
    /\ [][(pc = "load_geocodes" /\ GeocodesMemoized) =>
             /\ geo' = geoMemo[GEOCODES_PATH]
             /\ geoReads' = geoReads
             /\ pc' = "merge"]_vars
    /\ []((geo # <<>> /\ pc # "idle") => geoFile.exists)

C10_Witness ==
    /\ pc = "idle"
    /\ status = "stopped"
    /\ GeocodesMemoized
    /\ geoMemo[GEOCODES_PATH] # <<>>
    /\ ~geoFile.exists
    /\ geo = <<>>
    /\ Len(log) = 3 /\ log[1] = "completed" /\ log[2] = "stopped"

====
